---- MODULE Spec2Model ----
(***************************************************************************)
(* MLC X-ray Report Generator (MLC_Xray_Report_Generator.py).              *)
(*                                                                         *)
(* A text is a sequence of tokens.  A token is a chunk of characters that  *)
(* holds no line break ("cough", "Findings:"), or one of three single      *)
(* characters that the code and its libraries treat specially:             *)
(*   "\n"      the line break, on which join and split work;               *)
(*   "U+20B9"  a character outside Latin-1, which FPDF's core font Arial   *)
(*             cannot encode (multi_cell raises);                          *)
(*   "\f"      a control character, which is not XML-compatible            *)
(*             (python-docx's add_paragraph raises ValueError).            *)
(* The empty text is << >>.  A script run of Streamlit is a walk of pc     *)
(* through the statements of the module body.                              *)
(***************************************************************************)
EXTENDS Naturals, Sequences, FiniteSets

VARIABLES
    pc,                  \* position of the script run
    generate,            \* st.form_submit_button's value in this run
    patient_name, age, sex, hospital_no, referring_physician,
    date_of_exam, xray_type, clinical_history, findings, impression,
    doctor_name,
    signature_img,       \* the uploaded file: NoUpload, or its content
    lines,               \* build_report_text's list at its return
    report_text, sig_bytes, pdf_file, docx_file,
    page,                \* the elements delivered to the page in this run
    calls,               \* the calls of this run, with the text each was given
    swallowed,           \* exceptions caught by an except clause in this run
    exc                  \* the exception that ended the run, "" if none

fields == <<patient_name, age, sex, hospital_no, referring_physician,
            date_of_exam, xray_type, clinical_history, findings, impression,
            doctor_name, signature_img>>
locals == <<lines, report_text, sig_bytes, pdf_file, docx_file>>
vars == <<pc, generate, fields, locals, page, calls, swallowed, exc>>

-----------------------------------------------------------------------------
(* Bounds and input domains *)

\* the most line breaks a typed text-area value holds
MaxBreaks == 1

NL == "\n"
NonLatin1Char == "U+20B9"
ControlChar == "\f"

RECURSIVE Para(_)
\* a typed paragraph of k+1 lines
Para(k) == IF k = 0 THEN <<"x">> ELSE Para(k - 1) \o <<NL, "x">>

TypedTexts == {<< >>} \cup {Para(k) : k \in 0..MaxBreaks}

PatientNames == {<< >>, <<"Asha">>}
Ages == {<<"40">>}
\* two of the selectbox's options "", "Male", "Female", "Other"
SexChoices == {<< >>, <<"Female">>}
HospitalNos == {<<"OPD-7">>}
Physicians == {<<"Dr Rao">>}
Doctors == {<<"Dr Iyer">>}
\* one fixed option of the selectbox, and "Other" (then the typed text counts)
XrayChoices == {<<"Chest PA">>, <<"Other">>}
XraySpecified == {<< >>, <<"Dental">>}
Today == [y |-> 2025, m |-> 12, d |-> 31]
Dates == {Today, [y |-> 2024, m |-> 3, d |-> 5], [y |-> 2019, m |-> 10, d |-> 7]}
HistoryTexts == TypedTexts \cup {<<"cough">>, <<"Findings:">>}
FindingsTexts == TypedTexts \cup {<<"-">>, <<NonLatin1Char>>, <<ControlChar>>}
ImpressionTexts == TypedTexts

NoUpload == "None"
EmptyFile == "b''"
Uploads == {NoUpload, EmptyFile, "PNG", "JPEG_CMYK", "CORRUPT"}

\* Python's None for a text not yet assigned, and for a document not yet made
None == <<"None">>
NoDoc == << >>

-----------------------------------------------------------------------------
(* Text helpers *)

RECURSIVE join(_)
\* "\n".join(ls)
join(ls) ==
    IF Len(ls) = 0 THEN << >>
    ELSE IF Len(ls) = 1 THEN ls[1]
    ELSE ls[1] \o <<NL>> \o join(Tail(ls))

RECURSIVE split(_)
\* s.split('\n'): always at least one line, empty lines kept
split(s) ==
    IF \A i \in 1..Len(s) : s[i] # NL THEN <<s>>
    ELSE LET k == CHOOSE i \in 1..Len(s) :
                      s[i] = NL /\ \A j \in 1..(i - 1) : s[j] # NL
         IN <<SubSeq(s, 1, k - 1)>> \o split(SubSeq(s, k + 1, Len(s)))

DigitChar(k) == <<"0", "1", "2", "3", "4", "5", "6", "7", "8", "9">>[k + 1]

\* strftime's %d and %m: two digits, zero-padded
TwoDigits(n) == <<DigitChar((n \div 10) % 10), DigitChar(n % 10)>>

\* strftime's %Y for the years the date widget offers: four digits
FourDigits(n) == TwoDigits(n \div 100) \o TwoDigits(n % 100)

\* mutant: month before day (%m-%d-%Y)
strftime_mdY(dt) == TwoDigits(dt.m) \o <<"-">> \o TwoDigits(dt.d) \o <<"-">> \o FourDigits(dt.y)

strftime_dmY(dt) == TwoDigits(dt.d) \o <<"-">> \o TwoDigits(dt.m) \o <<"-">> \o FourDigits(dt.y)

-----------------------------------------------------------------------------
(* build_report_text *)

Title == <<"MLC X-RAY REPORT">>
Blank == << >>
Dash == <<"-">>
Notice == <<"Note: This report is generated electronically and is valid without a wet signature unless otherwise required.">>

\* mutant: the field as it is, no placeholder
OrDashNoPlaceholder(t) == t

\* x if x else "-"
OrDash(t) == IF t # << >> THEN t ELSE Dash

\* lines 54-59 and the blank line that closes them
IdentBlock ==
    << <<"Patient Name: ">> \o patient_name,
       <<"Age / Sex: ">> \o age \o <<" / ">> \o sex,
       <<"Hospital / OPD No.: ">> \o hospital_no,
       <<"Referring Physician: ">> \o referring_physician,
       <<"Date of Exam: ">> \o strftime_dmY(date_of_exam),
       <<"Examination: ">> \o xray_type,
       Blank >>

\* mutant: the section is appended without the test of clinical_history
ClinicalHistoryBlockAlways == << <<"Clinical History:">>, clinical_history, << >> >>

\* if clinical_history: header, the text as one list element, blank
ClinicalHistoryBlock ==
    IF clinical_history # << >>
    THEN << <<"Clinical History:">>, clinical_history, Blank >>
    ELSE << >>

FindingsBlock == << <<"Findings:">>, OrDash(findings), Blank >>

ImpressionBlock == << <<"Impression:">>, OrDash(impression), Blank >>

\* mutant: the notice is appended before the doctor line
ClosingBlockNoticeFirst == << Notice, << >>, <<"Reporting Doctor: ">> \o doctor_name >>

ClosingBlock == << <<"Reporting Doctor: ">> \o doctor_name, Blank, Notice >>

\* the list `lines` when build_report_text returns
ReportLines ==
    <<Title, Blank>> \o IdentBlock \o ClinicalHistoryBlock \o FindingsBlock
        \o ImpressionBlock \o ClosingBlock

build_report_text == join(ReportLines)

-----------------------------------------------------------------------------
(* The exporters.  A call either returns a document (raised = "") or       *)
(* raises; caught lists the exceptions an except clause inside swallowed.  *)
(* A document is the sequence of the objects added to it.                  *)

Obj(type, text) == [type |-> type, text |-> text]
Returned(doc, caught) == [raised |-> "", caught |-> caught, objects |-> doc]
Raised(e) == [raised |-> e, caught |-> << >>, objects |-> NoDoc]

Latin1(text) == \A i \in 1..Len(text) : text[i] # NonLatin1Char
XmlCompatible(text) == \A i \in 1..Len(text) : text[i] # ControlChar

\* bool(signature_bytes): neither None nor b''
Truthy(bytes) == bytes # NoUpload /\ bytes # EmptyFile

\* Image.open accepts the blob
Decodes(bytes) == bytes \in {"PNG", "JPEG_CMYK"}

\* img.save(format='PNG') accepts the image's mode (CMYK cannot be written as PNG)
SavesAsPng(bytes) == bytes = "PNG"

\* lines 100-108: the objects the signature adds, and what the except swallowed
SignaturePart(signature_bytes) ==
    IF ~Truthy(signature_bytes) THEN [objects |-> << >>, caught |-> << >>]
    ELSE IF ~Decodes(signature_bytes)
    THEN [objects |-> << >>, caught |-> <<"UnidentifiedImageError">>]
    ELSE IF ~SavesAsPng(signature_bytes)
    THEN [objects |-> << >>, caught |-> <<"OSError">>]
    ELSE [objects |-> <<Obj("image", <<"PNG">>)>>, caught |-> << >>]

\* mutant: no try/except around the decoding, the error leaves create_pdf
create_pdf_uncaught(text, signature_bytes) ==
    LET ls == split(text)
        sig == SignaturePart(signature_bytes)
    IN IF ~Latin1(text) THEN Raised("FPDFUnicodeEncodingException")
       ELSE IF Len(sig.caught) > 0 THEN Raised(sig.caught[1])
       ELSE Returned(<<Obj("title", Title)>>
                        \o [i \in 1..Len(ls) |-> Obj("line", ls[i])]
                        \o sig.objects,
                     << >>)

create_pdf(text, signature_bytes) ==
    LET ls == split(text)
        sig == SignaturePart(signature_bytes)
    IN IF ~Latin1(text) THEN Raised("FPDFUnicodeEncodingException")
       ELSE Returned(<<Obj("title", Title)>>
                        \o [i \in 1..Len(ls) |-> Obj("line", ls[i])]
                        \o sig.objects,
                     sig.caught)

\* mutant: empty lines get no paragraph (if para: doc.add_paragraph(para))
create_docx_skipping_blank(text, signature_bytes) ==
    LET ps == SelectSeq(split(text), LAMBDA l : l # << >>)
    IN IF ~XmlCompatible(text) THEN Raised("ValueError")
       ELSE Returned(<<Obj("heading", Title)>>
                        \o [i \in 1..Len(ps) |-> Obj("paragraph", ps[i])],
                     << >>)

create_docx(text, signature_bytes) ==
    LET ps == split(text)
    IN IF ~XmlCompatible(text) THEN Raised("ValueError")
       ELSE Returned(<<Obj("heading", Title)>>
                        \o [i \in 1..Len(ps) |-> Obj("paragraph", ps[i])],
                     << >>)

-----------------------------------------------------------------------------
(* The script run *)

Element(kind, text, doc) == [kind |-> kind, text |-> text, doc |-> doc]
Call(fn, text) == [fn |-> fn, text |-> text]

\* f"MLC_Xray_Report_{patient_name or 'patient'}<ext>"
FileName(ext) ==
    <<"MLC_Xray_Report_">>
        \o (IF patient_name # << >> THEN patient_name ELSE <<"patient">>)
        \o <<ext>>

Defaults ==
    /\ patient_name = << >> /\ age = << >> /\ sex = << >>
    /\ hospital_no = << >> /\ referring_physician = << >>
    /\ date_of_exam = Today /\ xray_type = <<"Chest PA">>
    /\ clinical_history = << >> /\ findings = << >> /\ impression = << >>
    /\ doctor_name = << >> /\ signature_img = NoUpload

Fresh ==
    /\ lines = << >> /\ report_text = None /\ sig_bytes = NoUpload
    /\ pdf_file = NoDoc /\ docx_file = NoDoc
    /\ page = << >> /\ calls = << >> /\ swallowed = << >> /\ exc = ""

Init == pc = "top" /\ generate = FALSE /\ Defaults /\ Fresh

\* the user fills the form and presses "Generate Report": the script reruns
Submit ==
    /\ pc = "form"
    /\ pc' = "top"
    /\ generate' = TRUE
    /\ patient_name' \in PatientNames
    /\ age' \in Ages
    /\ sex' \in SexChoices
    /\ hospital_no' \in HospitalNos
    /\ referring_physician' \in Physicians
    /\ date_of_exam' \in Dates
    /\ \E choice \in XrayChoices, specified \in XraySpecified :
           xray_type' = IF choice = <<"Other">> THEN specified ELSE choice
    /\ clinical_history' \in HistoryTexts
    /\ findings' \in FindingsTexts
    /\ impression' \in ImpressionTexts
    /\ doctor_name' \in Doctors
    /\ signature_img' \in Uploads
    /\ UNCHANGED <<locals, page, calls, swallowed, exc>>

\* the page is loaded again without a submission
Reload ==
    /\ pc = "form"
    /\ pc' = "top"
    /\ generate' = FALSE
    /\ UNCHANGED <<fields, locals, page, calls, swallowed, exc>>

\* if generate: ... else: ...
Branch ==
    /\ pc = "top"
    /\ pc' = IF generate THEN "build" ELSE "info"
    /\ UNCHANGED <<generate, fields, locals, page, calls, swallowed, exc>>

\* report_text = build_report_text()
Assemble ==
    /\ pc = "build"
    /\ lines' = ReportLines
    /\ report_text' = build_report_text
    /\ calls' = Append(calls, Call("build_report_text", build_report_text))
    /\ pc' = "read_sig"
    /\ UNCHANGED <<generate, fields, sig_bytes, pdf_file, docx_file, page, swallowed, exc>>

\* sig_bytes = None; if signature_img: sig_bytes = signature_img.read()
ReadSignature ==
    /\ pc = "read_sig"
    /\ sig_bytes' = IF signature_img # NoUpload THEN signature_img ELSE NoUpload
    /\ pc' = "pdf"
    /\ UNCHANGED <<generate, fields, lines, report_text, pdf_file, docx_file,
                   page, calls, swallowed, exc>>

\* pdf_file = create_pdf(report_text, signature_bytes=sig_bytes), outside any try:
\* an exception ends the run, and Streamlit shows it on the page
ExportPdf ==
    /\ pc = "pdf"
    /\ LET r == create_pdf(report_text, sig_bytes)
       IN /\ calls' = Append(calls, Call("create_pdf", report_text))
          /\ IF r.raised # ""
             THEN /\ exc' = r.raised
                  /\ page' = Append(page, Element("exception", << >>, NoDoc))
                  /\ pc' = "crashed"
                  /\ UNCHANGED <<pdf_file, swallowed>>
             ELSE /\ pdf_file' = r.objects
                  /\ swallowed' = swallowed \o r.caught
                  /\ pc' = "success"
                  /\ UNCHANGED <<exc, page>>
    /\ UNCHANGED <<generate, fields, lines, report_text, sig_bytes, docx_file>>

\* st.success(...)
ShowSuccess ==
    /\ pc = "success"
    /\ page' = Append(page, Element("success", << >>, NoDoc))
    /\ pc' = "preview"
    /\ UNCHANGED <<generate, fields, locals, calls, swallowed, exc>>

\* with st.expander("Preview report text"): st.text(report_text)
ShowPreview ==
    /\ pc = "preview"
    /\ page' = Append(page, Element("preview", report_text, NoDoc))
    /\ pc' = "pdf_button"
    /\ UNCHANGED <<generate, fields, locals, calls, swallowed, exc>>

\* st.download_button("Download PDF", data=pdf_file, ...)
PdfDownload ==
    /\ pc = "pdf_button"
    /\ page' = Append(page, Element("download_pdf", FileName(".pdf"), pdf_file))
    /\ pc' = "docx"
    /\ UNCHANGED <<generate, fields, locals, calls, swallowed, exc>>

\* mutant: no try/except around the DOCX step, the exception ends the run
ExportDocxUncaught ==
    /\ pc = "docx"
    /\ LET r == create_docx(report_text, sig_bytes)
       IN /\ calls' = Append(calls, Call("create_docx", report_text))
          /\ IF r.raised # ""
             THEN /\ exc' = r.raised
                  /\ page' = Append(page, Element("exception", << >>, NoDoc))
                  /\ pc' = "crashed"
                  /\ UNCHANGED docx_file
             ELSE /\ docx_file' = r.objects
                  /\ page' = Append(page, Element("download_docx", FileName(".docx"), r.objects))
                  /\ pc' = "copy"
                  /\ UNCHANGED exc
    /\ UNCHANGED <<generate, fields, lines, report_text, sig_bytes, pdf_file, swallowed>>

\* try: docx_file = create_docx(...); st.download_button(...)  except Exception: pass
ExportDocx ==
    /\ pc = "docx"
    /\ LET r == create_docx(report_text, sig_bytes)
       IN /\ calls' = Append(calls, Call("create_docx", report_text))
          /\ IF r.raised # ""
             THEN /\ swallowed' = Append(swallowed, r.raised)
                  /\ UNCHANGED <<docx_file, page>>
             ELSE /\ docx_file' = r.objects
                  /\ page' = Append(page, Element("download_docx", FileName(".docx"), r.objects))
                  /\ UNCHANGED swallowed
    /\ pc' = "copy"
    /\ UNCHANGED <<generate, fields, lines, report_text, sig_bytes, pdf_file, exc>>

\* mutant: the copy block assembles the text again (st.code(build_report_text()))
ShowCopyRebuilt ==
    /\ pc = "copy"
    /\ calls' = Append(calls, Call("build_report_text", build_report_text))
    /\ page' = page \o <<Element("markdown", <<"Copy report text">>, NoDoc),
                         Element("code", build_report_text, NoDoc)>>
    /\ pc' = "tips"
    /\ UNCHANGED <<generate, fields, locals, swallowed, exc>>

\* st.markdown("**Copy report text** ..."); st.code(report_text)
ShowCopy ==
    /\ pc = "copy"
    /\ page' = page \o <<Element("markdown", <<"Copy report text">>, NoDoc),
                         Element("code", report_text, NoDoc)>>
    /\ pc' = "tips"
    /\ UNCHANGED <<generate, fields, locals, calls, swallowed, exc>>

\* st.info("Fill patient details ...")
ShowInfo ==
    /\ pc = "info"
    /\ page' = Append(page, Element("info", << >>, NoDoc))
    /\ pc' = "tips"
    /\ UNCHANGED <<generate, fields, locals, calls, swallowed, exc>>

\* st.markdown("---"); st.markdown("**Tips:** ...")
ShowTips ==
    /\ pc = "tips"
    /\ page' = Append(page, Element("markdown", <<"Tips">>, NoDoc))
    /\ pc' = "done"
    /\ UNCHANGED <<generate, fields, locals, calls, swallowed, exc>>

\* the run is over; the session waits at the form, every name of the run gone
EndRun ==
    /\ pc \in {"done", "crashed"}
    /\ pc' = "form"
    /\ generate' = FALSE
    /\ patient_name' = << >> /\ age' = << >> /\ sex' = << >>
    /\ hospital_no' = << >> /\ referring_physician' = << >>
    /\ date_of_exam' = Today /\ xray_type' = <<"Chest PA">>
    /\ clinical_history' = << >> /\ findings' = << >> /\ impression' = << >>
    /\ doctor_name' = << >> /\ signature_img' = NoUpload
    /\ lines' = << >> /\ report_text' = None /\ sig_bytes' = NoUpload
    /\ pdf_file' = NoDoc /\ docx_file' = NoDoc
    /\ page' = << >> /\ calls' = << >> /\ swallowed' = << >> /\ exc' = ""

Next ==
    \/ Submit \/ Reload \/ Branch \/ Assemble \/ ReadSignature \/ ExportPdf
    \/ ShowSuccess \/ ShowPreview \/ PdfDownload \/ ExportDocx \/ ShowCopy
    \/ ShowInfo \/ ShowTips \/ EndRun

Spec == Init /\ [][Next]_vars

-----------------------------------------------------------------------------
(* Vocabulary of the properties *)

Range(q) == {q[i] : i \in 1..Len(q)}
Kinds == [i \in 1..Len(page) |-> page[i].kind]
NoBreak(t) == \A i \in 1..Len(t) : t[i] # NL
Breaks(t) == Cardinality({i \in 1..Len(t) : t[i] = NL})
TextsFrom(doc, k) == [i \in 1..(Len(doc) - k) |-> doc[i + k].text]
HasImage(doc) == \E i \in 1..Len(doc) : doc[i].type = "image"
Called(fn) == \E i \in 1..Len(calls) : calls[i].fn = fn
Assembled == report_text # None
\* a section header is a line that follows a blank line
HeaderAt(i, h) == i > 1 /\ i <= Len(lines) /\ lines[i] = h /\ lines[i - 1] = << >>
ExamIdx == CHOOSE i \in 1..Len(lines) : Len(lines[i]) > 0 /\ lines[i][1] = "Examination: "
DateIdx == CHOOSE i \in 1..Len(lines) : Len(lines[i]) > 0 /\ lines[i][1] = "Date of Exam: "
Digits == {"0", "1", "2", "3", "4", "5", "6", "7", "8", "9"}
DigitVal(c) ==
    CASE c = "0" -> 0 [] c = "1" -> 1 [] c = "2" -> 2 [] c = "3" -> 3 [] c = "4" -> 4
      [] c = "5" -> 5 [] c = "6" -> 6 [] c = "7" -> 7 [] c = "8" -> 8 [] c = "9" -> 9

-----------------------------------------------------------------------------
(* C1: in the assembled lines the line after the "Findings:" header is "-" *)
(* when findings is empty and the findings text itself otherwise, and the  *)
(* section ends there; the same for "Impression:" and impression.          *)
C1_Placeholder ==
    Assembled =>
        /\ report_text = join(lines)
        /\ \E i \in 1..Len(lines) : HeaderAt(i, <<"Findings:">>)
        /\ \E i \in 1..Len(lines) : HeaderAt(i, <<"Impression:">>)
        /\ \A i \in 1..Len(lines) :
               HeaderAt(i, <<"Findings:">>) =>
                   /\ lines[i + 1] = (IF findings = << >> THEN <<"-">> ELSE findings)
                   /\ lines[i + 2] = << >>
        /\ \A i \in 1..Len(lines) :
               HeaderAt(i, <<"Impression:">>) =>
                   /\ lines[i + 1] = (IF impression = << >> THEN <<"-">> ELSE impression)
                   /\ lines[i + 2] = << >>

C1_Witness == Assembled /\ findings = << >> /\ impression # << >>

(* C2: with an empty clinical_history no "Clinical History:" appears in    *)
(* the text and "Findings:" is the first section after the identification  *)
(* block; otherwise the section (header, then the text) is the first one   *)
(* after the "Examination:" line, and "Findings:" comes after it.          *)
C2_ClinicalHistory ==
    Assembled =>
        LET e == ExamIdx
        IN /\ report_text = join(lines)
           /\ lines[e + 1] = << >>
           /\ IF clinical_history = << >>
              THEN /\ \A i \in 1..Len(report_text) : report_text[i] # "Clinical History:"
                   /\ lines[e + 2] = <<"Findings:">>
              ELSE /\ lines[e + 2] = <<"Clinical History:">>
                   /\ lines[e + 3] = clinical_history
                   /\ lines[e + 4] = << >>
                   /\ lines[e + 5] = <<"Findings:">>

C2_Witness == Assembled /\ clinical_history = <<"cough">>

(* C3 as stated: the lines are exactly title, the six identification lines, *)
(* one blank line, the optional clinical-history block, the findings block, *)
(* the impression block, the doctor line and the notice.                    *)
ExpectedIdent ==
    << <<"Patient Name: ">> \o patient_name,
       <<"Age / Sex: ">> \o age \o <<" / ">> \o sex,
       <<"Hospital / OPD No.: ">> \o hospital_no,
       <<"Referring Physician: ">> \o referring_physician,
       lines[DateIdx],
       <<"Examination: ">> \o xray_type >>
ExpectedHistory(sep) ==
    IF clinical_history = << >> THEN << >>
    ELSE << <<"Clinical History:">>, clinical_history >> \o sep
ExpectedFindings == << <<"Findings:">>, IF findings = << >> THEN <<"-">> ELSE findings >>
ExpectedImpression == << <<"Impression:">>, IF impression = << >> THEN <<"-">> ELSE impression >>
ExpectedDoctor == <<"Reporting Doctor: ">> \o doctor_name

C3_AsStated ==
    Assembled =>
        lines = <<Title>> \o ExpectedIdent \o << << >> >> \o ExpectedHistory(<< >>)
                    \o ExpectedFindings \o ExpectedImpression
                    \o <<ExpectedDoctor, Notice>>

(* C3 amended: the same order, with a blank line also after the title,     *)
(* after each of the clinical-history, findings and impression blocks, and *)
(* between the doctor line and the notice, and nothing else.               *)
C3_Template ==
    Assembled =>
        /\ report_text = join(lines)
        /\ lines = <<Title, << >> >> \o ExpectedIdent \o << << >> >>
                       \o ExpectedHistory(<< << >> >>)
                       \o ExpectedFindings \o << << >> >>
                       \o ExpectedImpression \o << << >> >>
                       \o <<ExpectedDoctor, << >>, Notice>>

C3_Witness == Assembled /\ clinical_history # << >> /\ findings # << >> /\ impression = << >>

(* C4: the "Date of Exam:" line shows DD-MM-YYYY: two digits of the day,   *)
(* "-", two digits of the month, "-", four digits of the year; 2024-03-05  *)
(* shows as 05-03-2024.                                                    *)
C4_DateFormat ==
    Assembled =>
        LET l == lines[DateIdx]
        IN /\ Len(l) = 11
           /\ l[4] = "-" /\ l[7] = "-"
           /\ \A i \in {2, 3, 5, 6, 8, 9, 10, 11} : l[i] \in Digits
           /\ 10 * DigitVal(l[2]) + DigitVal(l[3]) = date_of_exam.d
           /\ 10 * DigitVal(l[5]) + DigitVal(l[6]) = date_of_exam.m
           /\ 1000 * DigitVal(l[8]) + 100 * DigitVal(l[9]) + 10 * DigitVal(l[10])
                  + DigitVal(l[11]) = date_of_exam.y
           /\ date_of_exam = [y |-> 2024, m |-> 3, d |-> 5] =>
                  l = <<"Date of Exam: ", "0", "5", "-", "0", "3", "-", "2", "0", "2", "4">>

C4_Witness == Assembled /\ date_of_exam = [y |-> 2024, m |-> 3, d |-> 5]

(* C5 amended: the document create_docx returns for a text of N lines (N  *)
(* is one more than the number of line breaks in the text) has N + 1       *)
(* blocks: the heading, then one paragraph per line of the text, in order. *)
(* N is the number of lines the assembler appended only when no free-text  *)
(* field holds a line break; each break in a field adds one paragraph.     *)
C5_DocxBlocks ==
    docx_file # NoDoc =>
        LET N == Breaks(report_text) + 1
        IN /\ Len(docx_file) = N + 1
           /\ docx_file[1] = [type |-> "heading", text |-> <<"MLC X-RAY REPORT">>]
           /\ \A i \in 2..Len(docx_file) :
                  docx_file[i].type = "paragraph" /\ NoBreak(docx_file[i].text)
           /\ join(TextsFrom(docx_file, 1)) = report_text
           /\ N = Len(lines) + Breaks(clinical_history) + Breaks(findings)
                      + Breaks(impression)

(* C5 as stated: N + 1 blocks also with N counted as the lines the         *)
(* assembler appended, whatever the free-text fields hold.                 *)
C5_AsStated ==
    docx_file # NoDoc =>
        /\ Len(docx_file) = Breaks(report_text) + 2
        /\ Len(docx_file) = Len(lines) + 1

C5_Witness == docx_file # NoDoc /\ Breaks(findings) > 0

(* C6: when the signature blob does not decode, the decoding error does    *)
(* not leave create_pdf: the outcome is the one for the same text with no  *)
(* signature, a document with the title and every line of the text and no  *)
(* image.                                                                  *)
C6_CorruptSignature ==
    (Called("create_pdf") /\ sig_bytes = "CORRUPT") =>
        LET plain == create_pdf(report_text, NoUpload)
        IN /\ exc # "UnidentifiedImageError"
           /\ exc = plain.raised
           /\ pdf_file = plain.objects
           /\ "UnidentifiedImageError" \in Range(swallowed) =>
                  /\ exc = ""
                  /\ Len(pdf_file) = Breaks(report_text) + 2
                  /\ pdf_file[1] = [type |-> "title", text |-> <<"MLC X-RAY REPORT">>]
                  /\ \A i \in 2..Len(pdf_file) :
                         pdf_file[i].type = "line" /\ NoBreak(pdf_file[i].text)
                  /\ join(TextsFrom(pdf_file, 1)) = report_text

C6_Witness ==
    /\ sig_bytes = "CORRUPT"
    /\ "UnidentifiedImageError" \in Range(swallowed)
    /\ pdf_file # NoDoc

(* C7: no failure is fatal: a submitted run never ends with an exception,  *)
(* and when it ends the preview and the copy-text block are on the page,   *)
(* with the download of every export that succeeded.                       *)
C7_GracefulDegradation ==
    /\ pc # "crashed"
    /\ exc = ""
    /\ (generate /\ pc = "done") =>
           /\ \E i \in 1..Len(page) : page[i].kind = "preview" /\ page[i].text = report_text
           /\ \E i \in 1..Len(page) : page[i].kind = "code" /\ page[i].text = report_text
           /\ pdf_file # NoDoc => "download_pdf" \in Range(Kinds)
           /\ docx_file # NoDoc => "download_docx" \in Range(Kinds)

\* create_docx was called on a text it cannot write
DocxFailed == Called("create_docx") /\ ~XmlCompatible(report_text)

(* C8: when create_docx raises, the run goes on: no DOCX download and no   *)
(* error on the page, and the success message, the preview, the PDF        *)
(* download and then the copy-text block are delivered.                    *)
C8_DocxFailureCaught ==
    DocxFailed =>
        /\ exc = "" /\ pc \in {"copy", "tips", "done"}
        /\ docx_file = NoDoc
        /\ "ValueError" \in Range(swallowed)
        /\ IF pc = "copy"
           THEN Kinds = <<"success", "preview", "download_pdf">>
           ELSE SubSeq(Kinds, 1, 5) = <<"success", "preview", "download_pdf", "markdown", "code">>
        /\ page[2].text = report_text /\ page[3].doc = pdf_file /\ pdf_file # NoDoc
        /\ pc # "copy" => page[5].text = report_text
        /\ \A i \in 1..Len(page) : page[i].kind \notin {"download_docx", "exception", "error"}

C8_Witness == DocxFailed /\ pc = "done"

(* C9: a PDF holds an image only if a non-empty signature blob was given   *)
(* and decoded; PDF export with no signature yields, for every report      *)
(* text, a non-empty document with no image; create_docx's outcome is the  *)
(* same for every signature and holds no image.                            *)
C9_SignatureEmbedding ==
    /\ (pdf_file # NoDoc /\ HasImage(pdf_file)) =>
           sig_bytes \notin {NoUpload, EmptyFile, "CORRUPT"}
    /\ (Called("create_pdf") /\ sig_bytes \in {NoUpload, EmptyFile}) =>
           pdf_file # NoDoc /\ ~HasImage(pdf_file)
    /\ Called("create_docx") =>
           /\ ~HasImage(docx_file)
           /\ \A b \in Uploads :
                  LET r == create_docx(report_text, b)
                  IN (r.raised = "" /\ docx_file = r.objects)
                         \/ (r.raised # "" /\ docx_file = NoDoc
                                 /\ r.raised \in Range(swallowed))

\* every use of the text in a run is a use of the one assembled value
C10_Uses ==
    /\ Cardinality({i \in 1..Len(calls) : calls[i].fn = "build_report_text"}) <= 1
    /\ Len(calls) > 0 =>
           /\ generate
           /\ calls[1].fn = "build_report_text"
           /\ report_text = calls[1].text
           /\ report_text = join(lines)
    /\ \A i \in 1..Len(calls) : calls[i].text = report_text
    /\ \A i \in 1..Len(page) :
           page[i].kind \in {"preview", "code"} => page[i].text = report_text
    /\ ~generate =>
           /\ calls = << >> /\ report_text = None
           /\ pdf_file = NoDoc /\ docx_file = NoDoc
           /\ \A i \in 1..Len(page) : page[i].kind \in {"info", "markdown"}
    /\ (generate /\ pc = "done") =>
           /\ Called("create_pdf") /\ Called("create_docx")
           /\ {"preview", "code"} \subseteq Range(Kinds)

\* no step of a run changes the assembled text
C10_Kept == (Assembled /\ pc' # "form") => report_text' = report_text

(* C10: in a submitted run build_report_text is called once, first, and    *)
(* report_text keeps the value it returned in every step: both exporters   *)
(* are given it and the preview and the copy block show it; without a      *)
(* submission nothing is assembled or exported.                            *)
C10_OneText == []C10_Uses /\ [][C10_Kept]_vars

C10_Witness == generate /\ pc = "done" /\ docx_file # NoDoc

====
